---- MODULE Spec2Model ----
(***************************************************************************)
(* Model of src/hasse.py: class Poset.  A Poset is constructed from an     *)
(* element list and a raw relation list; construction reduces the raw     *)
(* relations to hasse_relations, rejects cycles and assigns levels.  The  *)
(* queries has_path, upper_bound, lower_bound and is_lattice read the     *)
(* constructed object.                                                     *)
(***************************************************************************)
EXTENDS Integers, Sequences, FiniteSets

\* ---------------------------------------------------------------- bounds
\* Largest number of elements of a generated element list.
MaxElem == 3
\* Largest length of a generated raw relation list.
MaxRel == 3

\* ------------------------------------------------------------- constants
\* Python's None, the "no distinguished bound" result of the bound queries.
None == -1

Range(s) == {s[i] : i \in DOMAIN s}

\* Scenario A, the module-level example of the source.
ScenarioElements == <<1, 2, 3, 4, 5, 6, 7, 8, 9>>
ScenarioRelations ==
  << <<1, 2>>, <<1, 3>>, <<1, 6>>, <<2, 4>>, <<3, 4>>, <<5, 1>>,
     <<6, 4>>, <<1, 7>>, <<4, 8>>, <<4, 9>>, <<1, 4>> >>

VARIABLES elements, relations, hasse_relations, levels, passes, pc, ret

vars == <<elements, relations, hasse_relations, levels, passes, pc, ret>>

\* ------------------------------------------------- build_hasse_diagram
\* The set to_remove: every (a, d) with raw pairs (a, b), (c, d), b = c,
\* and (a, d) present in the copy of the raw list.
ToRemove(rels) ==
  {<<rels[i][1], rels[j][2]>> : i \in DOMAIN rels, j \in DOMAIN rels} \cap
  {p \in Range(rels) :
     \E i \in DOMAIN rels, j \in DOMAIN rels :
        /\ rels[i][2] = rels[j][1]
        /\ p = <<rels[i][1], rels[j][2]>>}

\* Variant: a self-pair is never treated as its own shortcut.
build_hasse_diagram_keep_self(rels) ==
  LET rm == {p \in ToRemove(rels) : p[1] # p[2]}
  IN  SelectSeq(rels, LAMBDA r : r \notin rm)

build_hasse_diagram(rels) ==
  SelectSeq(rels, LAMBDA r : r \notin ToRemove(rels))

\* ------------------------------------------------ dfs, check_for_cycles
RECURSIVE dfs(_, _, _, _), DfsScan(_, _, _, _, _), DfsScanNoPop(_, _, _, _, _)

\* Variant: the on-stack flag of v is not cleared when v is finished.
DfsScanNoPop(v, i, visited, stack, hasse) ==
  IF i > Len(hasse)
  THEN [found |-> FALSE, visited |-> visited, stack |-> stack]
  ELSE LET a == hasse[i][1]
           b == hasse[i][2]
       IN  IF a = v
           THEN IF ~visited[b]
                THEN LET r == dfs(b, visited, stack, hasse)
                     IN  IF r.found
                         THEN r
                         ELSE DfsScanNoPop(v, i + 1, r.visited, r.stack, hasse)
                ELSE IF stack[b]
                     THEN [found |-> TRUE, visited |-> visited, stack |-> stack]
                     ELSE DfsScanNoPop(v, i + 1, visited, stack, hasse)
           ELSE DfsScanNoPop(v, i + 1, visited, stack, hasse)

\* The for loop of dfs from the i-th covering edge on, and its epilogue.
DfsScan(v, i, visited, stack, hasse) ==
  IF i > Len(hasse)
  THEN [found |-> FALSE, visited |-> visited,
        stack |-> [stack EXCEPT ![v] = FALSE]]
  ELSE LET a == hasse[i][1]
           b == hasse[i][2]
       IN  IF a = v
           THEN IF ~visited[b]
                THEN LET r == dfs(b, visited, stack, hasse)
                     IN  IF r.found
                         THEN r
                         ELSE DfsScan(v, i + 1, r.visited, r.stack, hasse)
                ELSE IF stack[b]
                     THEN [found |-> TRUE, visited |-> visited, stack |-> stack]
                     ELSE DfsScan(v, i + 1, visited, stack, hasse)
           ELSE DfsScan(v, i + 1, visited, stack, hasse)

\* dfs returns its result together with the two shared, mutated maps.
dfs(v, visited, stack, hasse) ==
  DfsScan(v, 1, [visited EXCEPT ![v] = TRUE], [stack EXCEPT ![v] = TRUE], hasse)

RECURSIVE CycleScan(_, _, _, _, _)
\* The for loop of check_for_cycles from the k-th element on.
CycleScan(elems, k, visited, stack, hasse) ==
  IF k > Len(elems)
  THEN FALSE
  ELSE IF ~visited[elems[k]]
       THEN LET r == dfs(elems[k], visited, stack, hasse)
            IN  IF r.found
                THEN TRUE
                ELSE CycleScan(elems, k + 1, r.visited, r.stack, hasse)
       ELSE CycleScan(elems, k + 1, visited, stack, hasse)

check_for_cycles(elems, hasse) ==
  CycleScan(elems, 1, [e \in Range(elems) |-> FALSE],
            [e \in Range(elems) |-> FALSE], hasse)

\* --------------------------------------------------------- assign_levels
\* Variant: every element starts at level 1.
InitLevelsOne(elems) == [e \in Range(elems) |-> 1]

InitLevels(elems) == [e \in Range(elems) |-> 0]

RECURSIVE RelaxPass(_, _, _, _), RelaxPassStrict(_, _, _, _), RelaxPassBreak(_, _, _, _)

\* Variant: a level is raised only when it is strictly below its source's.
RelaxPassStrict(lv, hasse, i, changed) ==
  IF i > Len(hasse)
  THEN [levels |-> lv, changed |-> changed]
  ELSE LET a == hasse[i][1]
           b == hasse[i][2]
       IN  IF lv[b] < lv[a]
           THEN RelaxPassStrict([lv EXCEPT ![b] = lv[a] + 1], hasse, i + 1, TRUE)
           ELSE RelaxPassStrict(lv, hasse, i + 1, changed)

\* Variant: a pass ends at its first change.
RelaxPassBreak(lv, hasse, i, changed) ==
  IF i > Len(hasse)
  THEN [levels |-> lv, changed |-> changed]
  ELSE LET a == hasse[i][1]
           b == hasse[i][2]
       IN  IF lv[b] <= lv[a]
           THEN [levels |-> [lv EXCEPT ![b] = lv[a] + 1], changed |-> TRUE]
           ELSE RelaxPassBreak(lv, hasse, i + 1, changed)

\* One pass of the for loop over the covering edges, from the i-th edge on.
RelaxPass(lv, hasse, i, changed) ==
  IF i > Len(hasse)
  THEN [levels |-> lv, changed |-> changed]
  ELSE LET a == hasse[i][1]
           b == hasse[i][2]
       IN  IF lv[b] <= lv[a]
           THEN RelaxPass([lv EXCEPT ![b] = lv[a] + 1], hasse, i + 1, TRUE)
           ELSE RelaxPass(lv, hasse, i + 1, changed)

RECURSIVE RelaxLoop(_, _, _)
\* The while loop; n counts the passes already made.
RelaxLoop(lv, hasse, n) ==
  LET r == RelaxPass(lv, hasse, 1, FALSE)
  IN  IF r.changed
      THEN RelaxLoop(r.levels, hasse, n + 1)
      ELSE [levels |-> r.levels, passes |-> n + 1]

\* self.levels: level -> the elements of that level, in element-list order.
GroupLevels(elems, lv) ==
  [k \in {lv[e] : e \in Range(elems)} |-> SelectSeq(elems, LAMBDA e : lv[e] = k)]

assign_levels(elems, hasse) ==
  LET r == RelaxLoop(InitLevels(elems), hasse, 0)
  IN  [levels |-> GroupLevels(elems, r.levels), passes |-> r.passes]

\* -------------------------------------------------------------- has_path
RECURSIVE HasPathScan(_, _, _, _, _, _), HasPathLoop(_, _, _, _)

\* The for loop over the covering edges for the popped node.
HasPathScan(node, i, visited, stack, end, hasse) ==
  IF i > Len(hasse)
  THEN HasPathLoop(visited, stack, end, hasse)
  ELSE LET a == hasse[i][1]
           b == hasse[i][2]
       IN  IF a = node /\ b \notin visited
           THEN IF b = end
                THEN TRUE
                ELSE HasPathScan(node, i + 1, visited \cup {b},
                                 Append(stack, b), end, hasse)
           ELSE HasPathScan(node, i + 1, visited, stack, end, hasse)

\* The while loop: pop the last node of the stack and scan its edges.
HasPathLoop(visited, stack, end, hasse) ==
  IF stack = <<>>
  THEN FALSE
  ELSE HasPathScan(stack[Len(stack)], 1, visited,
                   SubSeq(stack, 1, Len(stack) - 1), end, hasse)

\* Variant: no shortcut for start = end.
has_path_no_reflexive(start, end, hasse) ==
  HasPathLoop({start}, <<start>>, end, hasse)

has_path(start, end, hasse) ==
  IF start = end THEN TRUE ELSE HasPathLoop({start}, <<start>>, end, hasse)

\* ------------------------------------------ upper_bound, lower_bound
\* Variant: the candidate must reach every upper bound.
upper_bound_swapped(x, y, elems, hasse) ==
  LET upper_bounds ==
        SelectSeq(elems, LAMBDA z : has_path(x, z, hasse) /\ has_path(y, z, hasse))
      ub_candidates ==
        SelectSeq(upper_bounds,
                  LAMBDA z : \A u \in Range(upper_bounds) : has_path(z, u, hasse))
  IN  IF Len(ub_candidates) = 1 THEN ub_candidates[1] ELSE None

upper_bound(x, y, elems, hasse) ==
  LET upper_bounds ==
        SelectSeq(elems, LAMBDA z : has_path(x, z, hasse) /\ has_path(y, z, hasse))
      ub_candidates ==
        SelectSeq(upper_bounds,
                  LAMBDA z : \A u \in Range(upper_bounds) : has_path(u, z, hasse))
  IN  IF Len(ub_candidates) = 1 THEN ub_candidates[1] ELSE None

lower_bound(x, y, elems, hasse) ==
  LET lower_bounds ==
        SelectSeq(elems, LAMBDA z : has_path(z, x, hasse) /\ has_path(z, y, hasse))
      lb_candidates ==
        SelectSeq(lower_bounds,
                  LAMBDA z : \A u \in Range(lower_bounds) : has_path(z, u, hasse))
  IN  IF Len(lb_candidates) = 1 THEN lb_candidates[1] ELSE None

\* ------------------------------------------------------------ is_lattice
\* Python truth value of a bound result: None and the integer 0 are false.
Truthy(v) == v # None /\ v # 0

\* combinations(elements, 2) are the index pairs i < j; the loop returns
\* False at the first pair with a false bound and True when there is none.
is_lattice(elems, hasse) ==
  \A i \in DOMAIN elems, j \in DOMAIN elems :
     i < j => /\ Truthy(upper_bound(elems[i], elems[j], elems, hasse))
              /\ Truthy(lower_bound(elems[i], elems[j], elems, hasse))

\* ------------------------------------------------------------ the machine
\* Element lists of the generated inputs: 0, 1, ..., n-1.
ElementLists == {[i \in 1..n |-> i - 1] : n \in 0..MaxElem}

\* Raw relation lists over an element list: any pairs, any order,
\* duplicates and self-pairs included.
RelationLists(elems) ==
  UNION {[1..n -> Range(elems) \X Range(elems)] : n \in 0..MaxRel}

NoRet == [op |-> "none", x |-> None, y |-> None, bool |-> FALSE, elem |-> None]

\* The arguments of Poset(elements, relations) and the fields as lines 7-10
\* leave them.
Init ==
  /\ \/ /\ elements \in ElementLists
        /\ relations \in RelationLists(elements)
     \/ /\ elements = ScenarioElements
        /\ relations = ScenarioRelations
  /\ hasse_relations = <<>>
  /\ levels = <<>>
  /\ passes = 0
  /\ pc = "new"
  /\ ret = NoRet

\* Poset.__init__, lines 11-14.
Construct ==
  /\ pc = "new"
  /\ LET h == build_hasse_diagram(relations)
     IN  /\ hasse_relations' = h
         /\ IF check_for_cycles(elements, h)
            THEN /\ pc' = "raised"
                 /\ UNCHANGED <<levels, passes>>
            ELSE LET r == assign_levels(elements, h)
                 IN  /\ levels' = r.levels
                     /\ passes' = r.passes
                     /\ pc' = "constructed"
  /\ UNCHANGED <<elements, relations, ret>>

HasPath ==
  /\ pc = "constructed"
  /\ \E x \in Range(elements), y \in Range(elements) :
        ret' = [op |-> "has_path", x |-> x, y |-> y,
                bool |-> has_path(x, y, hasse_relations), elem |-> None]
  /\ pc' = "returned"
  /\ UNCHANGED <<elements, relations, hasse_relations, levels, passes>>

UpperBound ==
  /\ pc = "constructed"
  /\ \E x \in Range(elements), y \in Range(elements) :
        ret' = [op |-> "upper_bound", x |-> x, y |-> y, bool |-> FALSE,
                elem |-> upper_bound(x, y, elements, hasse_relations)]
  /\ pc' = "returned"
  /\ UNCHANGED <<elements, relations, hasse_relations, levels, passes>>

LowerBound ==
  /\ pc = "constructed"
  /\ \E x \in Range(elements), y \in Range(elements) :
        ret' = [op |-> "lower_bound", x |-> x, y |-> y, bool |-> FALSE,
                elem |-> lower_bound(x, y, elements, hasse_relations)]
  /\ pc' = "returned"
  /\ UNCHANGED <<elements, relations, hasse_relations, levels, passes>>

IsLattice ==
  /\ pc = "constructed"
  /\ ret' = [op |-> "is_lattice", x |-> None, y |-> None,
             bool |-> is_lattice(elements, hasse_relations), elem |-> None]
  /\ pc' = "returned"
  /\ UNCHANGED <<elements, relations, hasse_relations, levels, passes>>

\* The caller takes the result; the object is ready for the next query.
Return ==
  /\ pc = "returned"
  /\ pc' = "constructed"
  /\ ret' = NoRet
  /\ UNCHANGED <<elements, relations, hasse_relations, levels, passes>>

Next == Construct \/ HasPath \/ UpperBound \/ LowerBound \/ IsLattice \/ Return

Spec == Init /\ [][Next]_vars

\* ------------------------------------------------- reference definitions
\* The transitive closure of a set of pairs.
RECURSIVE Closure(_)
Closure(R) ==
  LET R2 == R \cup {<<pq[1][1], pq[2][2]>> :
                      pq \in {t \in R \X R : t[1][2] = t[2][1]}}
  IN  IF R2 = R THEN R ELSE Closure(R2)

\* A directed path of one or more pairs of R leads from a to b.
PathIn(R, a, b) == <<a, b>> \in Closure(R)

\* R has a directed cycle (a self-pair is a cycle of length one).
HasCycle(R) == \E p \in Closure(R) : p[1] = p[2]

\* The key of the levels bucket that contains e.
rank(e) == CHOOSE k \in DOMAIN levels : e \in Range(levels[k])

SetMax(S) == CHOOSE m \in S : \A k \in S : k <= m

\* The number of pairs on the longest path of the acyclic set R ending at e.
RECURSIVE LongestEnding(_, _)
LongestEnding(e, R) ==
  LET preds == {p[1] : p \in {q \in R : q[2] = e}}
  IN  IF preds = {} THEN 0
      ELSE 1 + SetMax({LongestEnding(a, R) : a \in preds})

Constructed == pc \in {"constructed", "returned"}

\* ------------------------------------------------------------------ C1
\* C1: whenever the raw relation list contains a directed cycle (a self-pair
\* included), construction does not complete successfully.
C1_RawCycleRejected ==
  HasCycle(Range(relations)) => ~Constructed

\* ------------------------------------------------------------------ C2
\* C2: after a successful construction, b is reachable from a over
\* hasse_relations exactly when it is reachable over the raw relations.
C2_HasseReproducesOrder ==
  pc = "constructed" =>
    \A a \in Range(elements), b \in Range(elements) :
       (a = b \/ PathIn(Range(hasse_relations), a, b))
         <=> (a = b \/ PathIn(Range(relations), a, b))

\* ------------------------------------------------------------------ C3
\* C3: is_lattice() returns true exactly when, for every pair of distinct
\* elements, upper_bound and lower_bound both return an element, not None.
C3_IsLatticeIffBounds ==
  ret.op = "is_lattice" =>
    (ret.bool <=>
       \A i \in DOMAIN elements, j \in DOMAIN elements :
          i < j =>
            /\ upper_bound(elements[i], elements[j], elements, hasse_relations) # None
            /\ lower_bound(elements[i], elements[j], elements, hasse_relations) # None)

\* ------------------------------------------------------------------ C4
\* C4: after a successful construction, every covering edge (a, b) has
\* rank(b) > rank(a).
C4_RankStrictOnEdges ==
  pc = "constructed" =>
    \A p \in Range(hasse_relations) : rank(p[2]) > rank(p[1])

\* A chain of covering edges was ranked: some edge ends at rank 2 or more.
C4_Witness ==
  /\ pc = "constructed"
  /\ \E p \in Range(hasse_relations) : rank(p[2]) >= 2

\* ------------------------------------------------------------------ C5
\* C5: construction raises exactly when hasse_relations contains a directed
\* cycle, and check_for_cycles tells the same of the covering edges.
C5_RaiseIffCycle ==
  pc \in {"raised", "constructed"} =>
    /\ (pc = "raised") <=> HasCycle(Range(hasse_relations))
    /\ check_for_cycles(elements, hasse_relations)
         <=> HasCycle(Range(hasse_relations))

\* Construction raised for a cycle that no edge connects to the first element.
C5_Witness ==
  /\ pc = "raised"
  /\ Len(elements) >= 3
  /\ \A p \in Range(hasse_relations) :
        p[1] # elements[1] /\ p[2] # elements[1]

\* ------------------------------------------------------------------ C6
\* C6: has_path(start, end) is true exactly when start = end or a path of
\* one or more covering edges leads from start to end; has_path is
\* reflexive and transitive.
C6_HasPathIsReachability ==
  /\ ret.op = "has_path" =>
       (ret.bool <=> (ret.x = ret.y
                        \/ PathIn(Range(hasse_relations), ret.x, ret.y)))
  /\ pc = "constructed" =>
       /\ \A a \in Range(elements) : has_path(a, a, hasse_relations)
       /\ \A a \in Range(elements), b \in Range(elements), c \in Range(elements) :
             (has_path(a, b, hasse_relations) /\ has_path(b, c, hasse_relations))
               => has_path(a, c, hasse_relations)

\* has_path answered true for a path of two or more covering edges.
C6_Witness ==
  /\ ret.op = "has_path"
  /\ ret.bool
  /\ ret.x # ret.y
  /\ <<ret.x, ret.y>> \notin Range(hasse_relations)

\* ------------------------------------------------------------------ C7
\* The common upper bounds of x and y, and the common lower bounds.
UpperSet(x, y) ==
  {z \in Range(elements) :
     has_path(x, z, hasse_relations) /\ has_path(y, z, hasse_relations)}
LowerSet(x, y) ==
  {z \in Range(elements) :
     has_path(z, x, hasse_relations) /\ has_path(z, y, hasse_relations)}
\* The elements of U that every u of U reaches; those of L that reach every u.
UpperPick(x, y) ==
  {z \in UpperSet(x, y) :
     \A u \in UpperSet(x, y) : has_path(u, z, hasse_relations)}
LowerPick(x, y) ==
  {z \in LowerSet(x, y) :
     \A u \in LowerSet(x, y) : has_path(z, u, hasse_relations)}
TheOnly(S) == IF Cardinality(S) = 1 THEN CHOOSE z \in S : TRUE ELSE None

\* C7: upper_bound(x, y) returns the one element of U that every u in U
\* reaches and None when there is no such element or more than one;
\* lower_bound(x, y) likewise with L and the element that reaches every u.
C7_BoundsSelectUnique ==
  /\ ret.op = "upper_bound" => ret.elem = TheOnly(UpperPick(ret.x, ret.y))
  /\ ret.op = "lower_bound" => ret.elem = TheOnly(LowerPick(ret.x, ret.y))

\* upper_bound returned None for two distinct elements that have common
\* upper bounds, none of them reached by all the others.
C7_Witness ==
  /\ ret.op = "upper_bound"
  /\ ret.x # ret.y
  /\ ret.elem = None
  /\ Cardinality(UpperSet(ret.x, ret.y)) >= 2

\* ------------------------------------------------------------------ C8
\* C8 as stated: the relaxation loop ends after at most |elements| passes,
\* the final pass without change included.
C8_PassesAtMostElements ==
  pc = "constructed" => passes <= Len(elements)

\* C8 amended: the relaxation loop ends after at most |elements| passes, and
\* after exactly one pass when the element list is empty.
C8_PassesAtMostElementsOrOne ==
  pc = "constructed" =>
    passes <= (IF Len(elements) = 0 THEN 1 ELSE Len(elements))

\* The bound is met: three or more elements took as many passes as elements.
C8_Witness ==
  /\ pc = "constructed"
  /\ Len(elements) >= 3
  /\ passes = Len(elements)

\* ------------------------------------------------------------------ C9
\* C9: rank(e) is the number of edges on the longest covering-edge path
\* ending at e; an element with no incoming covering edge has rank 0.
C9_RankIsLongestPath ==
  pc = "constructed" =>
    /\ \A e \in Range(elements) :
          rank(e) = LongestEnding(e, Range(hasse_relations))
    /\ \A e \in Range(elements) :
          (\A p \in Range(hasse_relations) : p[2] # e) => rank(e) = 0

\* A path of two edges was ranked although its second edge comes first in
\* the edge list.
C9_Witness ==
  /\ pc = "constructed"
  /\ \E i \in DOMAIN hasse_relations, j \in DOMAIN hasse_relations :
        /\ i < j
        /\ hasse_relations[j][2] = hasse_relations[i][1]
        /\ rank(hasse_relations[i][2]) = 2

\* ------------------------------------------------------------------ C10
\* The raw pair r is the shortcut of a two-pair chain of the raw list.
Shortcut(r) ==
  \E p \in Range(relations), q \in Range(relations) :
     p[1] = r[1] /\ p[2] = q[1] /\ q[2] = r[2]

ScenarioHasse ==
  << <<1, 2>>, <<1, 3>>, <<1, 6>>, <<2, 4>>, <<3, 4>>, <<5, 1>>,
     <<6, 4>>, <<1, 7>>, <<4, 8>>, <<4, 9>> >>

\* C10: build_hasse_diagram removes exactly the raw pairs (a, d) for which
\* the raw list has (a, b) and (b, d), and keeps the others in their order;
\* on Scenario A it removes (1, 4) and keeps the other ten pairs.
C10_RemovesTwoHopShortcuts ==
  pc \in {"raised", "constructed"} =>
    /\ hasse_relations = SelectSeq(relations, LAMBDA r : ~Shortcut(r))
    /\ relations = ScenarioRelations => hasse_relations = ScenarioHasse

\* Scenario A was constructed and its reduction removed a pair.
C10_Witness ==
  /\ pc = "constructed"
  /\ relations = ScenarioRelations
  /\ Len(hasse_relations) = 10

====
